---- MODULE Spec2Model ----
(***************************************************************************)
(* Model of fitpc2_tz.c, the thermal zone driver for the FITPC2.           *)
(*                                                                         *)
(* The module has one init thread (fitpc2_init), one exit thread           *)
(* (fitpc2_exit, run only after init returned 0) and a number of framework *)
(* threads that call get_temp on a registered zone.  Every statement of    *)
(* the three functions that touches shared state is one step.              *)
(*                                                                         *)
(* A 32-bit word is a pair <<hi, lo>> of 16-bit halves.                    *)
(***************************************************************************)
EXTENDS Integers, Sequences, FiniteSets, TLC

VARIABLES
    pdev,        \* struct pci_dev *pdev: "NULL" or "DEV"
    pdev_refs,   \* references held on the PCI device by this module
    read_mutex,  \* struct mutex read_mutex: [state, owner], owner = {} when free
    tz,          \* tz[0..1]: the pointer, "NULL" or "OBJ"
    obj,         \* the two kzalloc'ed struct fitpc2_tz: [mem, id, dev]
    zones,       \* the framework's zone table, by handle
    initPc,      \* position of fitpc2_init
    initRet,     \* its return value (meaningful once initPc = "returned")
    regRet,      \* value returned by the pending thermal_zone_device_register
    dmi,         \* result of dmi_check_system (meaningful after the call)
    exitPc,      \* position of fitpc2_exit
    log,         \* operations done so far by init and exit, in order
    pc,          \* position of each get_temp caller
    zone,        \* the thermal_zone argument of each caller
    out,         \* *temperature of each caller
    out0,        \* *temperature as it was when the call started
    reg,         \* the local u32 reg of each caller
    ret,         \* return value of each caller (meaningful once pc = "done")
    trace,       \* mutex, register and delay operations of the current call
    fault,       \* undefined behaviour met so far (set of descriptions)
    mcr,         \* config register 0xD0 as last written
    mdr,         \* config register 0xD4 as last written
    query,       \* the trip or critical query of each caller: [fn, trip, type]
    cv_in,       \* temp_convert on its own: the argument
    cv_out       \* temp_convert on its own: <<>>, then <<result, value stored>>

vars == <<pdev, pdev_refs, read_mutex, tz, obj, zones, initPc, initRet, regRet,
          dmi, exitPc, log, pc, zone, out, out0, reg, ret, trace, fault,
          mcr, mdr, query, cv_in, cv_out>>

initVars == <<pdev, pdev_refs, tz, obj, initPc, initRet, regRet, dmi, log>>
callVars == <<pc, zone, out, out0, reg, ret, trace, mcr, mdr>>
queryVars == <<query>>
convVars == <<cv_in, cv_out>>

----------------------------------------------------------------------------
(* Bounds *)

NumCallers == 2

\* Trip indexes the queries are called with: -MaxTrip..MaxTrip.
MaxTrip == 1

Trips == (-MaxTrip)..MaxTrip

Callers == 1..NumCallers

\* Words the hardware may present in the data register.
StatusWords == { <<0, 7690>>,        \* 0x00001E0A
                 <<65535, 255>>,     \* 0xFFFF00FF
                 <<43981, 65280>> }  \* 0xABCDFF00

\* What the caller's temperature variable holds before the call.
Garbage == <<0, 4095>>

----------------------------------------------------------------------------
(* Constants of the driver *)

REG_DELAY == 100
PCI_PORT5_MCR == 208
PCI_PORT5_MDR == 212
TEMP1_MASK == <<0, 255>>
TEMP1_SHIFT == 0
TEMP2_MASK == <<0, 65280>>
TEMP2_SHIFT == 8
B0_INIT == <<65535, 65535>>
B0_EXIT == <<0, 0>>
TEMP_CRIT == 119
TEMP_TRIP == 119
CMD_B0 == <<57348, 45056>>     \* 0xE004B000
CMD_B1 == <<53252, 45312>>     \* 0xD004B100

ENODEV == 19
ENOMEM == 12
EBUSY == 16

fitpc2_ops == [get_temp |-> "get_temp", get_crit_temp |-> "get_crit_temp",
               get_trip_temp |-> "get_trip_temp",
               get_trip_type |-> "get_trip_type"]

Handles == {"Z1", "Z2"}
NoQuery == [fn |-> "none", trip |-> 0, type |-> "unset"]
ZERO32 == <<0, 0>>

----------------------------------------------------------------------------
(* 32-bit arithmetic on <<hi, lo>> *)

RECURSIVE AndBits(_, _, _)
AndBits(a, b, n) ==
    IF n = 0 THEN 0
    ELSE (a % 2) * (b % 2) + 2 * AndBits(a \div 2, b \div 2, n - 1)

U32And(x, y) == <<AndBits(x[1], y[1], 16), AndBits(x[2], y[2], 16)>>

\* x >> k for 0 <= k <= 16
U32Shr(x, k) ==
    <<x[1] \div (2 ^ k), (x[2] \div (2 ^ k)) + (x[1] % (2 ^ k)) * (2 ^ (16 - k))>>

\* conversion of a u32 to u8
U8(x) == x[2] % 256

\* Largest value of the s32 (and int) the conversion computes in.
S32_MAX == 2147483647

\* Largest value of a u8.
U8_MAX == 255

\* a * b in int, for a, b >= 0.  A product above S32_MAX is a signed overflow:
\* the result is then not the product (shown as -S32_MAX - 1).
MulS32(a, b) ==
    IF a = 0 \/ b <= S32_MAX \div a THEN a * b ELSE (-S32_MAX) - 1

\* a / b in int, for b > 0: the quotient truncated toward zero.
DivS32(a, b) == IF a >= 0 THEN a \div b ELSE -((-a) \div b)

\* The first term divided before it is scaled.
temp_convert_DivFirst(temp) ==
    LET c1 == MulS32(1680, DivS32(MulS32(temp, temp), 1000000))
        c2 == DivS32(MulS32(82652, temp), 100000)
    IN  c1 - c2 + 127

\* The additive constant left out.
temp_convert_NoOffset(temp) ==
    LET c1 == DivS32(MulS32(MulS32(1680, temp), temp), 1000000)
        c2 == DivS32(MulS32(82652, temp), 100000)
    IN  c1 - c2

\* static int temp_convert(u8 temp)
temp_convert(temp) ==
    LET c1 == DivS32(MulS32(MulS32(1680, temp), temp), 1000000)
        c2 == DivS32(MulS32(82652, temp), 100000)
    IN  c1 - c2 + 127

\* *temperature = <int>: conversion of an int to unsigned long.  The result
\* <<w, v>> stands for the unsigned long v + w * 2^BITS_PER_LONG.
ToULong(v) == <<IF v < 0 THEN 1 ELSE 0, v>>

\* temp1 taken from the second byte of the word.
Temp1_HighByte(r) == U8(U32Shr(U32And(r, TEMP2_MASK), TEMP2_SHIFT))

\* temp1 = (reg & TEMP1_MASK) >> TEMP1_SHIFT;
Temp1(r) == U8(U32Shr(U32And(r, TEMP1_MASK), TEMP1_SHIFT))

\* temp2 = (reg & TEMP2_MASK) >> TEMP2_SHIFT;
Temp2(r) == U8(U32Shr(U32And(r, TEMP2_MASK), TEMP2_SHIFT))

----------------------------------------------------------------------------
(* Operations a call records in its trace: <<op, register, value>> *)

EvLock == <<"lock", 0, ZERO32>>
EvUnlock == <<"unlock", 0, ZERO32>>
EvDelay(ms) == <<"msleep", ms, ZERO32>>
EvWrite(r, v) == <<"write", r, v>>
EvRead(r) == <<"read", r, ZERO32>>

----------------------------------------------------------------------------
\* The module as loaded, before fitpc2_init runs.
ProgramInit ==
    /\ pdev = "NULL"
    /\ pdev_refs = 0
    /\ read_mutex = [state |-> "uninit", owner |-> {}]
    /\ tz = [i \in 0..1 |-> "NULL"]
    /\ obj = [i \in 0..1 |-> [mem |-> "none", id |-> 0, dev |-> "NULL"]]
    /\ zones = [h \in Handles |-> [state |-> "free", type |-> "", ops |-> "NULL"]]
    /\ initPc = "dmi"
    /\ initRet = 0
    /\ regRet = "NULL"
    /\ dmi = FALSE
    /\ exitPc = "not_started"
    /\ log = <<>>
    /\ pc = [c \in Callers |-> "idle"]
    /\ zone = [c \in Callers |-> "NULL"]
    /\ out = [c \in Callers |-> Garbage]
    /\ out0 = [c \in Callers |-> Garbage]
    /\ reg = [c \in Callers |-> ZERO32]
    /\ ret = [c \in Callers |-> 0]
    /\ trace = [c \in Callers |-> <<>>]
    /\ fault = {}
    /\ mcr = ZERO32
    /\ mdr = ZERO32
    /\ query = [c \in Callers |-> NoQuery]

Init ==
    /\ ProgramInit
    /\ cv_in = 0
    /\ cv_out = <<>>

----------------------------------------------------------------------------
(* fitpc2_init *)

Returned(code) == /\ initPc' = "returned"
                  /\ initRet' = code

\* The test of dmi_check_system's result left out.
DmiRefuses_Never(match) == FALSE

\* if (!dmi_check_system(fitpc2_dmi_table)) return -ENODEV;
DmiRefuses(match) == ~match

init_dmi ==
    /\ initPc = "dmi"
    /\ \E match \in BOOLEAN :
          /\ dmi' = match
          /\ IF DmiRefuses(match)
                THEN Returned(-ENODEV)
                ELSE initPc' = "pci_get" /\ initRet' = initRet
    /\ log' = Append(log, "dmi_check_system")
    /\ UNCHANGED <<pdev, pdev_refs, read_mutex, tz, obj, zones, regRet, exitPc,
                   fault>>
    /\ UNCHANGED callVars
    /\ UNCHANGED <<queryVars, convVars>>

\* pdev = pci_get_device(PCI_VENDOR_ID_INTEL, 0x8100, NULL);
\* The result is not tested: init goes on whatever it is.
init_pci_get ==
    /\ initPc = "pci_get"
    /\ \E found \in BOOLEAN :
          /\ pdev' = IF found THEN "DEV" ELSE "NULL"
          /\ pdev_refs' = IF found THEN pdev_refs + 1 ELSE pdev_refs
    /\ initPc' = "mutex_init"
    /\ log' = Append(log, "pci_get_device")
    /\ UNCHANGED <<read_mutex, tz, obj, zones, initRet, regRet, dmi, exitPc,
                   fault>>
    /\ UNCHANGED callVars
    /\ UNCHANGED <<queryVars, convVars>>

\* mutex_init(&read_mutex);
init_mutex_init ==
    /\ initPc = "mutex_init"
    /\ read_mutex' = [state |-> "init", owner |-> {}]
    /\ initPc' = "kzalloc0"
    /\ log' = Append(log, "mutex_init")
    /\ UNCHANGED <<pdev, pdev_refs, tz, obj, zones, initRet, regRet, dmi,
                   exitPc, fault>>
    /\ UNCHANGED callVars
    /\ UNCHANGED <<queryVars, convVars>>

\* Where init goes after tz[i] = kzalloc(...); if (!tz[i]) return -ENOMEM;
AllocFailed(ptr) == ptr = "NULL"

\* tz[i] = kzalloc(sizeof(struct fitpc2_tz), GFP_KERNEL);
\* if (!tz[i]) return -ENOMEM;
init_kzalloc(i) ==
    /\ initPc = (IF i = 0 THEN "kzalloc0" ELSE "kzalloc1")
    /\ \E ok \in BOOLEAN :
          LET ptr == IF ok THEN "OBJ" ELSE "NULL" IN
          /\ tz' = [tz EXCEPT ![i] = ptr]
          /\ obj' = IF ok
                      THEN [obj EXCEPT ![i] = [mem |-> "live", id |-> 0,
                                               dev |-> "NULL"]]
                      ELSE obj
          /\ IF AllocFailed(ptr)
                THEN Returned(-ENOMEM)
                ELSE /\ initPc' = (IF i = 0 THEN "kzalloc1" ELSE "register0")
                     /\ initRet' = initRet
    /\ log' = Append(log, IF i = 0 THEN "kzalloc0" ELSE "kzalloc1")
    /\ UNCHANGED <<pdev, pdev_refs, read_mutex, zones, regRet, dmi, exitPc,
                   fault>>
    /\ UNCHANGED callVars
    /\ UNCHANGED <<queryVars, convVars>>

ZoneName(i) == IF i = 0 THEN "FITPC2-1" ELSE "FITPC2-2"
ZoneHandle(i) == IF i = 0 THEN "Z1" ELSE "Z2"

\* thermal_zone_device_register("FITPC2-n", 0, NULL, &fitpc2_ops, 0, 0, 0, 0)
\* up to its return.  The framework either rejects the registration and
\* returns NULL, or enters the zone in its table: from then on the zone's
\* callbacks may run, also before the handle is stored in tz[i]->dev.
init_register(i) ==
    /\ initPc = (IF i = 0 THEN "register0" ELSE "register1")
    /\ \E ok \in BOOLEAN :
          IF ok
             THEN /\ zones' = [zones EXCEPT ![ZoneHandle(i)] =
                                  [state |-> "registered", type |-> ZoneName(i),
                                   ops |-> "&fitpc2_ops"]]
                  /\ regRet' = ZoneHandle(i)
             ELSE /\ zones' = zones
                  /\ regRet' = "NULL"
    /\ initPc' = (IF i = 0 THEN "store0" ELSE "store1")
    /\ log' = Append(log, IF i = 0 THEN "register0" ELSE "register1")
    /\ UNCHANGED <<pdev, pdev_refs, read_mutex, tz, obj, initRet, dmi, exitPc,
                   fault>>
    /\ UNCHANGED callVars
    /\ UNCHANGED <<queryVars, convVars>>

\* The test of the registration's result left out.
RegisterFailed_Never(dev) == FALSE

\* if (!tz[i]->dev) return -EBUSY;
RegisterFailed(dev) == dev = "NULL"

\* tz[i]->dev = <value returned>; if (!tz[i]->dev) return -EBUSY;
\* after the second zone: return 0;
init_store(i) ==
    /\ initPc = (IF i = 0 THEN "store0" ELSE "store1")
    /\ obj' = [obj EXCEPT ![i].dev = regRet]
    /\ IF RegisterFailed(regRet)
          THEN Returned(-EBUSY)
          ELSE IF i = 0
                  THEN initPc' = "register1" /\ initRet' = initRet
                  ELSE Returned(0)
    /\ regRet' = "NULL"
    /\ UNCHANGED <<pdev, pdev_refs, read_mutex, tz, zones, dmi, exitPc, log,
                   fault>>
    /\ UNCHANGED callVars
    /\ UNCHANGED <<queryVars, convVars>>

----------------------------------------------------------------------------
(* get_temp, called by framework thread c on zone handle h *)

\* A call in progress on zone h (the framework waits for these when the
\* zone is unregistered).
InCall(h) == \E c \in Callers : pc[c] # "idle" /\ zone[c] = h

\* The framework invokes .get_temp of a zone in its table.
gt_call(c) ==
    /\ pc[c] = "idle"
    /\ \E h \in Handles :
          /\ zones[h].state = "registered"
          /\ zone' = [zone EXCEPT ![c] = h]
    /\ pc' = [pc EXCEPT ![c] = "check_pdev"]
    /\ out' = [out EXCEPT ![c] = Garbage]
    /\ out0' = [out0 EXCEPT ![c] = Garbage]
    /\ reg' = [reg EXCEPT ![c] = ZERO32]
    /\ ret' = [ret EXCEPT ![c] = 0]
    /\ trace' = [trace EXCEPT ![c] = <<>>]
    /\ UNCHANGED <<read_mutex, zones, exitPc, fault, mcr, mdr>>
    /\ UNCHANGED initVars
    /\ UNCHANGED <<queryVars, convVars>>

\* The test of pdev left out.
NoDevice_Never(p) == FALSE

\* if (!pdev) return -ENODEV;
NoDevice(p) == p = "NULL"

gt_check_pdev(c) ==
    /\ pc[c] = "check_pdev"
    /\ IF NoDevice(pdev)
          THEN /\ pc' = [pc EXCEPT ![c] = "done"]
               /\ ret' = [ret EXCEPT ![c] = -ENODEV]
          ELSE /\ pc' = [pc EXCEPT ![c] = "lock"]
               /\ ret' = ret
    /\ UNCHANGED <<read_mutex, zones, exitPc, fault, zone, out, out0, reg,
                   trace, mcr, mdr>>
    /\ UNCHANGED initVars
    /\ UNCHANGED <<queryVars, convVars>>

\* A lock that never blocks.
MutexAvailable_NoBlock(m) == TRUE

\* mutex_lock blocks while another thread owns the mutex.
MutexAvailable(m) == m.owner = {}

\* mutex_lock(&read_mutex);
gt_lock(c) ==
    /\ pc[c] = "lock"
    /\ MutexAvailable(read_mutex)
    /\ read_mutex' = [read_mutex EXCEPT !.owner = {c}]
    /\ fault' = IF read_mutex.state = "init" THEN fault
                ELSE fault \cup {"mutex_lock outside the mutex's lifetime"}
    /\ trace' = [trace EXCEPT ![c] = Append(@, EvLock)]
    /\ pc' = [pc EXCEPT ![c] = "write_init"]
    /\ UNCHANGED <<zones, exitPc, zone, out, out0, reg, ret, mcr, mdr>>
    /\ UNCHANGED initVars
    /\ UNCHANGED <<queryVars, convVars>>

\* The protocol without the register read: the value comes from elsewhere.
Protocol_NoRead ==
    << <<"write_init", EvWrite(PCI_PORT5_MDR, B0_INIT), "write_b0">>,
       <<"write_b0", EvWrite(PCI_PORT5_MCR, CMD_B0), "msleep">>,
       <<"msleep", EvDelay(REG_DELAY), "write_b1">>,
       <<"write_b1", EvWrite(PCI_PORT5_MCR, CMD_B1), "write_exit">>,
       <<"write_exit", EvWrite(PCI_PORT5_MDR, B0_EXIT), "write_b0_again">>,
       <<"write_b0_again", EvWrite(PCI_PORT5_MCR, CMD_B0), "unlock">> >>

\* The protocol without the closing command write.
Protocol_NoFinalWrite ==
    << <<"write_init", EvWrite(PCI_PORT5_MDR, B0_INIT), "write_b0">>,
       <<"write_b0", EvWrite(PCI_PORT5_MCR, CMD_B0), "msleep">>,
       <<"msleep", EvDelay(REG_DELAY), "write_b1">>,
       <<"write_b1", EvWrite(PCI_PORT5_MCR, CMD_B1), "read">>,
       <<"read", EvRead(PCI_PORT5_MDR), "write_exit">>,
       <<"write_exit", EvWrite(PCI_PORT5_MDR, B0_EXIT), "unlock">> >>

\* The register accesses of get_temp in program order: <<pc, event, next pc>>.
Protocol ==
    << <<"write_init", EvWrite(PCI_PORT5_MDR, B0_INIT), "write_b0">>,
       <<"write_b0", EvWrite(PCI_PORT5_MCR, CMD_B0), "msleep">>,
       <<"msleep", EvDelay(REG_DELAY), "write_b1">>,
       <<"write_b1", EvWrite(PCI_PORT5_MCR, CMD_B1), "read">>,
       <<"read", EvRead(PCI_PORT5_MDR), "write_exit">>,
       <<"write_exit", EvWrite(PCI_PORT5_MDR, B0_EXIT), "write_b0_again">>,
       <<"write_b0_again", EvWrite(PCI_PORT5_MCR, CMD_B0), "unlock">> >>

\* pci_write_config_dword(pdev, <register>, <value>);
gt_write(c) ==
    /\ \E k \in 1..Len(Protocol) :
          LET st == Protocol[k] IN
          /\ pc[c] = st[1]
          /\ st[2][1] = "write"
          /\ trace' = [trace EXCEPT ![c] = Append(@, st[2])]
          /\ mcr' = IF st[2][2] = PCI_PORT5_MCR THEN st[2][3] ELSE mcr
          /\ mdr' = IF st[2][2] = PCI_PORT5_MDR THEN st[2][3] ELSE mdr
          /\ pc' = [pc EXCEPT ![c] = st[3]]
    /\ UNCHANGED <<read_mutex, zones, exitPc, fault, zone, out, out0, reg, ret>>
    /\ UNCHANGED initVars
    /\ UNCHANGED <<queryVars, convVars>>

\* msleep(REG_DELAY);
gt_msleep(c) ==
    /\ \E k \in 1..Len(Protocol) :
          LET st == Protocol[k] IN
          /\ pc[c] = st[1]
          /\ st[2][1] = "msleep"
          /\ trace' = [trace EXCEPT ![c] = Append(@, st[2])]
          /\ pc' = [pc EXCEPT ![c] = st[3]]
    /\ UNCHANGED <<read_mutex, zones, exitPc, fault, zone, out, out0, reg, ret,
                   mcr, mdr>>
    /\ UNCHANGED initVars
    /\ UNCHANGED <<queryVars, convVars>>

\* pci_read_config_dword(pdev, PCI_PORT5_MDR, &reg);
\* The hardware presents a status word of its choosing.
gt_read(c) ==
    /\ \E k \in 1..Len(Protocol) :
          LET st == Protocol[k] IN
          /\ pc[c] = st[1]
          /\ st[2][1] = "read"
          /\ trace' = [trace EXCEPT ![c] = Append(@, st[2])]
          /\ pc' = [pc EXCEPT ![c] = st[3]]
    /\ \E w \in StatusWords : reg' = [reg EXCEPT ![c] = w]
    /\ UNCHANGED <<read_mutex, zones, exitPc, fault, zone, out, out0, ret,
                   mcr, mdr>>
    /\ UNCHANGED initVars
    /\ UNCHANGED <<queryVars, convVars>>

\* mutex_unlock(&read_mutex);
\* An unlock that leaves the mutex held.
MutexUnlock_Forgets(m, c) == m

\* mutex_unlock: the mutex after its owner c released it.
MutexUnlock(m, c) == [m EXCEPT !.owner = @ \ {c}]

gt_unlock(c) ==
    /\ pc[c] = "unlock"
    /\ read_mutex' = MutexUnlock(read_mutex, c)
    /\ trace' = [trace EXCEPT ![c] = Append(@, EvUnlock)]
    /\ pc' = [pc EXCEPT ![c] = "cmp0"]
    /\ UNCHANGED <<zones, exitPc, fault, zone, out, out0, reg, ret, mcr, mdr>>
    /\ UNCHANGED initVars
    /\ UNCHANGED <<queryVars, convVars>>

\* The value get_temp stores for the descriptor it matched.
SensorValue(i, r) == IF i = 0 THEN temp_convert(Temp1(r))
                              ELSE temp_convert(Temp2(r))

\* thermal_zone == tz[i]->dev
ZoneMatches(h, i) == h = obj[i].dev

\* if (thermal_zone == tz[0]->dev) *temperature = temp_convert(temp1);
\* else if (thermal_zone == tz[1]->dev) *temperature = temp_convert(temp2);
\* return 0;
gt_compare(c, i) ==
    /\ pc[c] = (IF i = 0 THEN "cmp0" ELSE "cmp1")
    /\ fault' = IF tz[i] = "OBJ" /\ obj[i].mem = "live" THEN fault
                ELSE fault \cup {"tz[i]->dev read outside the descriptor's lifetime"}
    /\ IF ZoneMatches(zone[c], i)
          THEN /\ out' = [out EXCEPT ![c] = ToULong(SensorValue(i, reg[c]))]
               /\ pc' = [pc EXCEPT ![c] = "done"]
          ELSE /\ out' = out
               /\ pc' = [pc EXCEPT ![c] = IF i = 0 THEN "cmp1" ELSE "done"]
    /\ ret' = [ret EXCEPT ![c] = 0]
    /\ UNCHANGED <<read_mutex, zones, exitPc, zone, out0, reg, trace, mcr, mdr>>
    /\ UNCHANGED initVars
    /\ UNCHANGED <<queryVars, convVars>>

\* The call has returned; the framework thread is free for the next one.
gt_return(c) ==
    /\ pc[c] = "done"
    /\ pc' = [pc EXCEPT ![c] = "idle"]
    /\ zone' = [zone EXCEPT ![c] = "NULL"]
    /\ out' = [out EXCEPT ![c] = Garbage]
    /\ out0' = [out0 EXCEPT ![c] = Garbage]
    /\ reg' = [reg EXCEPT ![c] = ZERO32]
    /\ ret' = [ret EXCEPT ![c] = 0]
    /\ trace' = [trace EXCEPT ![c] = <<>>]
    /\ UNCHANGED <<read_mutex, zones, exitPc, fault, mcr, mdr>>
    /\ UNCHANGED initVars
    /\ UNCHANGED <<queryVars, convVars>>

----------------------------------------------------------------------------
(* get_crit_temp, get_trip_type and get_trip_temp, called by framework     *)
(* thread c on a zone in the framework's table.  They touch no shared      *)
(* state, so each call is one step.  The caller's output variables hold    *)
(* Garbage (temperature) and "unset" (type) before the call.               *)

\* The callee has run; what is left is the caller seeing the result.
QueryDone(c, h, q, temperature) ==
    /\ pc[c] = "idle"
    /\ zones[h].state = "registered"
    /\ pc' = [pc EXCEPT ![c] = "q_done"]
    /\ zone' = [zone EXCEPT ![c] = h]
    /\ query' = [query EXCEPT ![c] = q]
    /\ out0' = [out0 EXCEPT ![c] = Garbage]
    /\ out' = [out EXCEPT ![c] = temperature]
    /\ ret' = [ret EXCEPT ![c] = 0]
    /\ UNCHANGED <<read_mutex, zones, exitPc, fault, reg, trace, mcr, mdr>>
    /\ UNCHANGED initVars
    /\ UNCHANGED convVars

\* *temperature = TEMP_CRIT; return 0;
q_crit_temp(c) ==
    \E h \in Handles :
        QueryDone(c, h, [fn |-> "get_crit_temp", trip |-> 0, type |-> "unset"],
                  ToULong(TEMP_CRIT))

\* Every trip index taken for trip 0.
TripFound_Always(trip) == TRUE

\* No trip index taken for trip 0.
TripFound_Never(trip) == FALSE

\* if (trip == 0)
TripFound(trip) == trip = 0

\* if (trip == 0) *type = THERMAL_TRIP_ACTIVE; return 0;
q_trip_type(c) ==
    \E h \in Handles, trip \in Trips :
        QueryDone(c, h,
                  [fn |-> "get_trip_type", trip |-> trip,
                   type |-> IF TripFound(trip) THEN "THERMAL_TRIP_ACTIVE"
                                               ELSE "unset"],
                  Garbage)

\* if (trip == 0) *temperature = TEMP_TRIP; return 0;
q_trip_temp(c) ==
    \E h \in Handles, trip \in Trips :
        QueryDone(c, h,
                  [fn |-> "get_trip_temp", trip |-> trip, type |-> "unset"],
                  IF TripFound(trip) THEN ToULong(TEMP_TRIP) ELSE Garbage)

\* The query has returned; the framework thread is free for the next call.
q_return(c) ==
    /\ pc[c] = "q_done"
    /\ pc' = [pc EXCEPT ![c] = "idle"]
    /\ zone' = [zone EXCEPT ![c] = "NULL"]
    /\ query' = [query EXCEPT ![c] = NoQuery]
    /\ out' = [out EXCEPT ![c] = Garbage]
    /\ out0' = [out0 EXCEPT ![c] = Garbage]
    /\ ret' = [ret EXCEPT ![c] = 0]
    /\ UNCHANGED <<read_mutex, zones, exitPc, fault, reg, trace, mcr, mdr>>
    /\ UNCHANGED initVars
    /\ UNCHANGED convVars

----------------------------------------------------------------------------
(* fitpc2_exit: run on module unload, which needs a module whose init      *)
(* returned 0.                                                             *)

\* fitpc2_exit destroying the mutex before it unregisters the zones.
ExitOrder_DestroyFirst == <<"mutex_destroy", "unregister0", "unregister1",
                            "kfree0", "kfree1", "pci_dev_put", "exited">>

\* fitpc2_exit freeing the descriptors before it unregisters the zones.
ExitOrder_FreeFirst == <<"kfree0", "kfree1", "unregister0", "unregister1",
                         "mutex_destroy", "pci_dev_put", "exited">>

\* The statements of fitpc2_exit in program order.
ExitOrder == <<"unregister0", "unregister1", "mutex_destroy", "kfree0",
               "kfree1", "pci_dev_put", "exited">>

ExitAfter(p) ==
    LET k == CHOOSE j \in 1..Len(ExitOrder) : ExitOrder[j] = p
    IN  ExitOrder[k + 1]

exit_begin ==
    /\ initPc = "returned"
    /\ initRet = 0
    /\ exitPc = "not_started"
    /\ exitPc' = ExitOrder[1]
    /\ UNCHANGED <<read_mutex, zones, fault>>
    /\ UNCHANGED initVars
    /\ UNCHANGED callVars
    /\ UNCHANGED <<queryVars, convVars>>

\* thermal_zone_device_unregister(tz[i]->dev);
\* The framework removes the zone and returns once no callback of the zone
\* is running any more.
exit_unregister(i) ==
    /\ exitPc = (IF i = 0 THEN "unregister0" ELSE "unregister1")
    /\ IF tz[i] = "OBJ" /\ obj[i].mem = "live"
          THEN /\ ~InCall(obj[i].dev)
               /\ zones' = [h \in Handles |->
                              IF h = obj[i].dev
                                 THEN [zones[h] EXCEPT !.state = "unregistered"]
                                 ELSE zones[h]]
               /\ fault' = fault
          ELSE /\ zones' = zones
               /\ fault' = fault \cup
                             {"tz[i]->dev read outside the descriptor's lifetime"}
    /\ exitPc' = ExitAfter(exitPc)
    /\ log' = Append(log, exitPc)
    /\ UNCHANGED <<pdev, pdev_refs, read_mutex, tz, obj, initPc, initRet,
                   regRet, dmi>>
    /\ UNCHANGED callVars
    /\ UNCHANGED <<queryVars, convVars>>

\* mutex_destroy(&read_mutex);
exit_mutex_destroy ==
    /\ exitPc = "mutex_destroy"
    /\ read_mutex' = [read_mutex EXCEPT !.state = "destroyed"]
    /\ fault' = IF read_mutex.owner = {} THEN fault
                ELSE fault \cup {"mutex destroyed while held"}
    /\ exitPc' = ExitAfter(exitPc)
    /\ log' = Append(log, exitPc)
    /\ UNCHANGED <<pdev, pdev_refs, tz, obj, zones, initPc, initRet, regRet,
                   dmi>>
    /\ UNCHANGED callVars
    /\ UNCHANGED <<queryVars, convVars>>

\* kfree(tz[i]);
exit_kfree(i) ==
    /\ exitPc = (IF i = 0 THEN "kfree0" ELSE "kfree1")
    /\ obj' = [obj EXCEPT ![i].mem = IF tz[i] = "OBJ" THEN "freed" ELSE @]
    /\ exitPc' = ExitAfter(exitPc)
    /\ log' = Append(log, exitPc)
    /\ UNCHANGED <<pdev, pdev_refs, read_mutex, tz, zones, initPc, initRet,
                   regRet, dmi, fault>>
    /\ UNCHANGED callVars
    /\ UNCHANGED <<queryVars, convVars>>

\* pci_dev_put(pdev);  (does nothing for a NULL pointer)
exit_pci_dev_put ==
    /\ exitPc = "pci_dev_put"
    /\ pdev_refs' = IF pdev = "NULL" THEN pdev_refs ELSE pdev_refs - 1
    /\ exitPc' = ExitAfter(exitPc)
    /\ log' = Append(log, exitPc)
    /\ UNCHANGED <<pdev, read_mutex, tz, obj, zones, initPc, initRet, regRet,
                   dmi, fault>>
    /\ UNCHANGED callVars
    /\ UNCHANGED <<queryVars, convVars>>

----------------------------------------------------------------------------
Next ==
    \/ init_dmi
    \/ init_pci_get
    \/ init_mutex_init
    \/ \E i \in 0..1 : init_kzalloc(i)
    \/ \E i \in 0..1 : init_register(i)
    \/ \E i \in 0..1 : init_store(i)
    \/ \E c \in Callers : gt_call(c)
    \/ \E c \in Callers : gt_check_pdev(c)
    \/ \E c \in Callers : gt_lock(c)
    \/ \E c \in Callers : gt_write(c)
    \/ \E c \in Callers : gt_msleep(c)
    \/ \E c \in Callers : gt_read(c)
    \/ \E c \in Callers : gt_unlock(c)
    \/ \E c \in Callers : \E i \in 0..1 : gt_compare(c, i)
    \/ \E c \in Callers : gt_return(c)
    \/ exit_begin
    \/ \E i \in 0..1 : exit_unregister(i)
    \/ exit_mutex_destroy
    \/ \E i \in 0..1 : exit_kfree(i)
    \/ exit_pci_dev_put

Spec == Init /\ [][Next]_vars

----------------------------------------------------------------------------
(* The driver with all four callbacks of fitpc2_ops in use.  The queries   *)
(* do not look at the hardware, so here it presents one status word only.  *)

QueryWord == <<0, 7690>>

QueryNext ==
    \/ Next /\ \A c \in Callers : reg'[c] \in {ZERO32, QueryWord}
    \/ \E c \in Callers : q_crit_temp(c)
    \/ \E c \in Callers : q_trip_type(c)
    \/ \E c \in Callers : q_trip_temp(c)
    \/ \E c \in Callers : q_return(c)

QuerySpec == Init /\ [][QueryNext]_vars

----------------------------------------------------------------------------
(* The driver under a fair scheduler.  A framework thread inside get_temp  *)
(* that can run is eventually run, and a thread waiting in mutex_lock gets *)
(* the mutex if it is free again and again (the kernel mutex hands over to *)
(* its waiters).  Whether the framework calls at all, and whether the      *)
(* module is ever unloaded, stays open.  The hardware presents one status  *)
(* word.                                                                   *)

\* The steps of get_temp thread c can take without waiting.
CallStep(c) ==
    \/ gt_check_pdev(c)
    \/ gt_write(c)
    \/ gt_msleep(c)
    \/ gt_read(c) /\ reg'[c] = QueryWord
    \/ gt_unlock(c)
    \/ \E i \in 0..1 : gt_compare(c, i)
    \/ gt_return(c)

LiveNext ==
    \/ init_dmi
    \/ init_pci_get
    \/ init_mutex_init
    \/ \E i \in 0..1 : init_kzalloc(i)
    \/ \E i \in 0..1 : init_register(i)
    \/ \E i \in 0..1 : init_store(i)
    \/ \E c \in Callers : gt_call(c)
    \/ \E c \in Callers : gt_lock(c)
    \/ \E c \in Callers : CallStep(c)
    \/ exit_begin
    \/ \E i \in 0..1 : exit_unregister(i)
    \/ exit_mutex_destroy
    \/ \E i \in 0..1 : exit_kfree(i)
    \/ exit_pci_dev_put

Fairness ==
    \A c \in Callers : WF_vars(CallStep(c)) /\ SF_vars(gt_lock(c))

LiveSpec == Init /\ [][LiveNext]_vars /\ Fairness

----------------------------------------------------------------------------
(* temp_convert on its own: every u8 argument, the result, and the value   *)
(* get_temp stores for it in *temperature.                                 *)

programVars == <<pdev, pdev_refs, read_mutex, tz, obj, zones, initPc, initRet,
                 regRet, dmi, exitPc, log, pc, zone, out, out0, reg, ret,
                 trace, fault, mcr, mdr, query>>

ConvInit ==
    /\ ProgramInit
    /\ cv_in \in 0..U8_MAX
    /\ cv_out = <<>>

\* r = temp_convert(temp); *temperature = r;
conv_apply ==
    /\ cv_out = <<>>
    /\ cv_out' = <<temp_convert(cv_in), ToULong(temp_convert(cv_in))>>
    /\ UNCHANGED <<cv_in, programVars>>

ConvNext == conv_apply

ConvSpec == ConvInit /\ [][ConvNext]_vars

----------------------------------------------------------------------------
(* Properties *)

IsPrefix(s, t) == Len(s) <= Len(t) /\ \A k \in 1..Len(s) : s[k] = t[k]

\* Number of register reads and writes in a trace.
RegAccesses(t) == Cardinality({k \in 1..Len(t) : t[k][1] \in {"read", "write"}})

\* Caller c has done its first register write and not yet its last one.
InTransaction(c) == RegAccesses(trace[c]) >= 1 /\ RegAccesses(trace[c]) < 6

NoZoneRegistered == \A h \in Handles : zones[h].state # "registered"

\* C1: while one get_temp caller is between its first register write and its
\* last register write (the settle delay included), no step of another
\* caller reads or writes a register.
C1_Serialized ==
    [][\A c, d \in Callers :
          (c # d /\ InTransaction(c))
             => RegAccesses(trace'[d]) <= RegAccesses(trace[d])]_vars

\* C1 witness: a caller for one zone sits in the settle delay with its first
\* two writes done while a caller for the other zone waits for the mutex.
C1_Witness ==
    \E c, d \in Callers :
        /\ c # d
        /\ pc[c] = "write_b1" /\ pc[d] = "lock"
        /\ zone[c] # zone[d]

\* C2: a get_temp call that found a device performs exactly: lock, write
\* 0xFFFFFFFF to 0xD4, write 0xE004B000 to 0xD0, msleep(100), write
\* 0xD004B100 to 0xD0, read 0xD4, write 0 to 0xD4, write 0xE004B000 to 0xD0,
\* unlock; at every moment what it has done so far is a prefix of that.
C2_Sequence ==
    LET want == << <<"lock", 0, <<0, 0>>>>,
                   <<"write", 212, <<65535, 65535>>>>,
                   <<"write", 208, <<57348, 45056>>>>,
                   <<"msleep", 100, <<0, 0>>>>,
                   <<"write", 208, <<53252, 45312>>>>,
                   <<"read", 212, <<0, 0>>>>,
                   <<"write", 212, <<0, 0>>>>,
                   <<"write", 208, <<57348, 45056>>>>,
                   <<"unlock", 0, <<0, 0>>>> >>
    IN  \A c \in Callers :
           /\ IsPrefix(trace[c], want)
           /\ (pc[c] \in {"cmp0", "cmp1", "done"} /\ pdev # "NULL")
                 => trace[c] = want

\* C2 witness: a call has returned 0 after the nine operations.
C2_Witness ==
    \E c \in Callers : pc[c] = "done" /\ ret[c] = 0 /\ Len(trace[c]) = 9

\* C3: with pdev NULL, get_temp returns -ENODEV straight after the test:
\* no register access, no delay, no mutex operation, *temperature untouched.
C3_NoDevice ==
    \A c \in Callers :
        (pdev = "NULL" /\ query[c].fn = "none"
                       /\ pc[c] \notin {"idle", "check_pdev"})
           => /\ pc[c] = "done"
              /\ ret[c] = -19
              /\ trace[c] = <<>>
              /\ out[c] = out0[c]
              /\ c \notin read_mutex.owner

\* C3 witness: a call on a registered zone has returned -ENODEV.
C3_Witness ==
    \E c \in Callers :
        pc[c] = "done" /\ pdev = "NULL" /\ ret[c] = -19
                       /\ zones[zone[c]].state = "registered"

\* C4: when pci_get_device found nothing, init returns -ENODEV and no zone
\* is registered.
C4_EnumerationFailureAborts ==
    (initPc = "returned" /\ dmi /\ pdev = "NULL")
       => (initRet = -19 /\ NoZoneRegistered)

\* C5: when init returns -ENOMEM, the device reference has been put back and
\* no sensor descriptor is left allocated.
C5_AllocFailureReleases ==
    (initPc = "returned" /\ initRet = -12)
       => (pdev_refs = 0 /\ \A i \in 0..1 : obj[i].mem # "live")

\* C6: when init returns -EBUSY, no zone is left registered, no sensor
\* descriptor is left allocated and the device reference has been put back.
C6_RegistrationFailureCleansUp ==
    (initPc = "returned" /\ initRet = -16)
       => /\ NoZoneRegistered
          /\ \A i \in 0..1 : obj[i].mem # "live"
          /\ pdev_refs = 0

\* C7: when the DMI table does not match, init returns -ENODEV having done
\* nothing else: no enumeration, no allocation, no registration, no register
\* access.
C7_DmiMismatchRefuses ==
    (initPc # "dmi" /\ ~dmi)
       => /\ initPc = "returned" /\ initRet = -19
          /\ log = <<"dmi_check_system">>
          /\ pdev = "NULL" /\ pdev_refs = 0
          /\ \A i \in 0..1 : tz[i] = "NULL" /\ obj[i].mem = "none"
          /\ \A h \in Handles : zones[h].state = "free"
          /\ \A c \in Callers : pc[c] = "idle" /\ trace[c] = <<>>
          /\ mcr = <<0, 0>> /\ mdr = <<0, 0>>

\* C7 witness: init has returned -ENODEV on a DMI mismatch.
C7_Witness == initPc = "returned" /\ ~dmi /\ initRet = -19

\* C8: when init has returned 0 (and exit has not begun), both descriptors
\* are allocated, exactly the two zones FITPC2-1 (held by tz[0]) and FITPC2-2
\* (held by tz[1]) are registered, both with fitpc2_ops, which holds the four
\* callbacks.
C8_SuccessMeansBoth ==
    (initPc = "returned" /\ initRet = 0 /\ exitPc = "not_started")
       => /\ \A i \in 0..1 : tz[i] = "OBJ" /\ obj[i].mem = "live"
          /\ {h \in Handles : zones[h].state = "registered"} = {"Z1", "Z2"}
          /\ obj[0].dev = "Z1" /\ zones["Z1"].type = "FITPC2-1"
          /\ obj[1].dev = "Z2" /\ zones["Z2"].type = "FITPC2-2"
          /\ \A h \in Handles : zones[h].ops = "&fitpc2_ops"
          /\ fitpc2_ops = [get_temp |-> "get_temp",
                           get_crit_temp |-> "get_crit_temp",
                           get_trip_temp |-> "get_trip_temp",
                           get_trip_type |-> "get_trip_type"]

\* C8 witness: init has returned 0.
C8_Witness == initPc = "returned" /\ initRet = 0 /\ exitPc = "not_started"

\* C9: once exit has finished, both zones are unregistered, both descriptors
\* freed and no device reference is held; at no moment is a descriptor freed
\* whose zone is not yet unregistered, and pci_dev_put is not called before
\* both zones are unregistered.
C9_ExitOrder ==
    /\ exitPc = "exited"
          => /\ \A h \in Handles : zones[h].state = "unregistered"
             /\ \A i \in 0..1 : obj[i].mem = "freed"
             /\ pdev_refs = 0
             /\ \E k \in 1..Len(log) : log[k] = "pci_dev_put"
    /\ \A i \in 0..1 :
          obj[i].mem = "freed"
             => zones[IF i = 0 THEN "Z1" ELSE "Z2"].state = "unregistered"
    /\ (\E k \in 1..Len(log) : log[k] = "pci_dev_put")
          => \A h \in Handles : zones[h].state = "unregistered"

\* C9 witness: exit has finished on a module that held a device.
C9_Witness == exitPc = "exited" /\ pdev = "DEV" /\ pdev_refs = 0

\* C10: a get_temp that returned 0 for FITPC2-1 has stored the conversion of
\* bits [7:0] of the word it read, and one for FITPC2-2 the conversion of
\* bits [15:8]; nothing else of the word matters.
C10_ByteOfTheZone ==
    \A c \in Callers :
        (pc[c] = "done" /\ ret[c] = 0)
           => /\ zone[c] = "Z1"
                    => out[c] = <<0, temp_convert(reg[c][2] % 256)>>
              /\ zone[c] = "Z2"
                    => out[c] = <<0, temp_convert(reg[c][2] \div 256)>>

\* A get_temp of caller c that read the word 0x00001E0A and runs its zone
\* comparisons after init returned 0: on FITPC2-1 the first comparison ends
\* the call with value v1 stored; on FITPC2-2 the first comparison fails and
\* the second ends the call with value v2 stored.
EndToEndStep(c, v1, v2) ==
    (/\ initPc = "returned" /\ initRet = 0
     /\ reg[c] = <<0, 7690>>
     /\ pc[c] \in {"cmp0", "cmp1"} /\ pc'[c] # pc[c])
       => /\ (zone[c] = "Z1" /\ pc[c] = "cmp0")
                => (pc'[c] = "done" /\ ret'[c] = 0 /\ out'[c] = <<0, v1>>)
          /\ (zone[c] = "Z2" /\ pc[c] = "cmp0") => pc'[c] = "cmp1"
          /\ (zone[c] = "Z2" /\ pc[c] = "cmp1")
                => (pc'[c] = "done" /\ ret'[c] = 0 /\ out'[c] = <<0, v2>>)

\* C11 as stated: after a successful init and with status word 0x00001E0A,
\* sensor 0's raw byte is 30 and sensor 1's is 10: a read of FITPC2-1 yields
\* convert(30) and a read of FITPC2-2 yields convert(10).
C11_AsStated ==
    [][\A c \in Callers :
          EndToEndStep(c, temp_convert(30), temp_convert(10))]_vars

\* C11 amended: after a successful init and with status word 0x00001E0A,
\* sensor 0's raw byte is 0x0A (10) and sensor 1's is 0x1E (30): a read of
\* FITPC2-1 yields convert(10) = 119 and a read of FITPC2-2 yields
\* convert(30) = 104.
C11_EndToEnd ==
    [][\A c \in Callers : EndToEndStep(c, 119, 104)]_vars

\* C11 witness: after a successful init two calls, one per zone, both read
\* 0x00001E0A and returned 119 for FITPC2-1 and 104 for FITPC2-2.
C11_Witness ==
    /\ initPc = "returned" /\ initRet = 0
    /\ \E c, d \in Callers :
          /\ pc[c] = "done" /\ zone[c] = "Z1" /\ reg[c] = <<0, 7690>>
          /\ out[c] = <<0, 119>>
          /\ pc[d] = "done" /\ zone[d] = "Z2" /\ reg[d] = <<0, 7690>>
          /\ out[d] = <<0, 104>>

\* C12: for every raw byte 0..255, temp_convert(raw) is
\* floor(1680*raw*raw / 1000000) - floor(82652*raw / 100000) + 127 in
\* unbounded integers, no product of the computation exceeds the s32 range,
\* and temp_convert(0) = 127.
C12_Formula ==
    cv_out # <<>>
       => /\ cv_out[1] = ((1680 * cv_in * cv_in) \div 1000000)
                           - ((82652 * cv_in) \div 100000) + 127
          /\ 1680 * cv_in * cv_in <= 2147483647
          /\ 82652 * cv_in <= 2147483647
          /\ cv_in = 0 => cv_out[1] = 127

\* C12 witness: the conversion of 255, the argument with the largest
\* products, is 26.
C12_Witness == cv_in = 255 /\ cv_out # <<>> /\ cv_out[1] = 26

\* C20: for every raw byte 0..255, temp_convert(raw) is in 25..127, and the
\* unsigned long stored for it is that same value (no wrap).
C20_Range ==
    cv_out # <<>>
       => /\ cv_out[1] >= 25 /\ cv_out[1] <= 127
          /\ cv_out[2] = <<0, cv_out[1]>>

\* C20 witness: the smallest result, 25, is reached (at raw = 246).
C20_Witness == cv_in = 246 /\ cv_out # <<>> /\ cv_out[1] = 25

TripQueries == {"get_trip_temp", "get_trip_type"}

\* C13: a trip-temperature or trip-type query for a trip index other than 0
\* does not return success: it reports that there is no such trip.
C13_NoSuchTrip ==
    \A c \in Callers :
        (pc[c] = "q_done" /\ query[c].fn \in TripQueries /\ query[c].trip # 0)
           => ret[c] # 0

\* C14: on either zone, get_crit_temp returns 0 with 119, get_trip_temp for
\* trip 0 returns 0 with 119, get_trip_type for trip 0 returns 0 with
\* THERMAL_TRIP_ACTIVE.
C14_FixedAnswers ==
    \A c \in Callers :
        pc[c] = "q_done"
           => /\ query[c].fn = "get_crit_temp"
                    => (ret[c] = 0 /\ out[c] = <<0, 119>>)
              /\ (query[c].fn = "get_trip_temp" /\ query[c].trip = 0)
                    => (ret[c] = 0 /\ out[c] = <<0, 119>>)
              /\ (query[c].fn = "get_trip_type" /\ query[c].trip = 0)
                    => (ret[c] = 0 /\ query[c].type = "THERMAL_TRIP_ACTIVE")

\* C14 witness: the three queries answered, on both zones between them.
C14_Witness ==
    \E c, d \in Callers :
        /\ pc[c] = "q_done" /\ query[c].fn = "get_trip_type"
        /\ query[c].trip = 0 /\ zone[c] = "Z2"
        /\ query[c].type = "THERMAL_TRIP_ACTIVE"
        /\ pc[d] = "q_done" /\ query[d].fn = "get_trip_temp"
        /\ query[d].trip = 0 /\ zone[d] = "Z1" /\ out[d] = <<0, 119>>

\* C16: a critical or trip query changes no register, neither the mutex nor
\* the device handle nor the descriptors nor the zone table, and for a trip
\* index other than 0 leaves the caller's outputs as they were; an idle
\* framework thread can always complete one on a registered zone, whatever
\* the state of the mutex.
C16_QueriesPure ==
    /\ [](\A c \in Callers :
             (pc[c] = "idle" /\ \E h \in Handles : zones[h].state = "registered")
                => /\ ENABLED q_crit_temp(c)
                   /\ ENABLED q_trip_type(c)
                   /\ ENABLED q_trip_temp(c))
    /\ [][\A c \in Callers :
            (pc[c] = "idle" /\ pc'[c] = "q_done")
               => /\ UNCHANGED <<pdev, pdev_refs, read_mutex, tz, obj, zones,
                                 mcr, mdr, trace, reg, fault>>
                  /\ (query'[c].fn \in TripQueries /\ query'[c].trip # 0)
                        => (out'[c] = out0'[c] /\ query'[c].type = "unset")]_vars

\* C16 witness: a trip query for index 1 has completed with the outputs
\* untouched while another thread holds the mutex in its settle delay.
C16_Witness ==
    \E c, d \in Callers :
        /\ pc[c] = "q_done" /\ query[c].fn = "get_trip_temp"
        /\ query[c].trip = 1 /\ out[c] = out0[c]
        /\ pc[d] = "msleep" /\ read_mutex.owner = {d}

\* Number of events of kind k in a trace.
CountOf(t, k) == Cardinality({j \in 1..Len(t) : t[j][1] = k})

ByteOfZone(h, r) == IF h = "Z1" THEN r[2] % 256 ELSE r[2] \div 256

\* C18: whenever get_temp returns 0 it has written the caller's output, and
\* with the conversion of the raw byte of the zone it was called for; this
\* includes calls made while init is inside the zone's registration.
C18_SuccessWrites ==
    \A c \in Callers :
        (pc[c] = "done" /\ ret[c] = 0)
           => /\ out[c] # out0[c]
              /\ out[c] = ToULong(temp_convert(ByteOfZone(zone[c], reg[c])))

\* Event a occurs in the log, and before every occurrence of event b.
Precedes(a, b) ==
    \A k \in 1..Len(log) :
        log[k] = b => \E j \in 1..(k - 1) : log[j] = a

\* C19: no step has used the mutex or a descriptor outside its lifetime;
\* while a zone is registered or a get_temp call is running the mutex is
\* initialised and both descriptors are allocated and not freed; mutex_init
\* comes before the first registration and mutex_destroy after both
\* unregistrations.
C19_Lifetimes ==
    /\ fault = {}
    /\ ((\E h \in Handles : zones[h].state = "registered")
          \/ (\E c \in Callers : pc[c] # "idle"))
         => /\ read_mutex.state = "init"
            /\ \A i \in 0..1 : tz[i] = "OBJ" /\ obj[i].mem = "live"
    /\ Precedes("mutex_init", "register0")
    /\ Precedes("unregister0", "mutex_destroy")
    /\ Precedes("unregister1", "mutex_destroy")

\* C19 witness: exit waits in the unregistration of FITPC2-2 for a get_temp
\* call that holds the mutex inside its transaction.
C19_Witness ==
    /\ exitPc = "unregister1"
    /\ \E c \in Callers :
          /\ pc[c] = "msleep" /\ zone[c] = "Z2"
          /\ read_mutex = [state |-> "init", owner |-> {c}]

\* The places of get_temp between mutex_lock and mutex_unlock.
HoldingPcs == {"write_init", "write_b0", "msleep", "write_b1", "read",
               "write_exit", "write_b0_again", "unlock"}

\* C17: the mutex is owned exactly by the get_temp call that is between its
\* mutex_lock and its mutex_unlock (so it is free when there is none, and a
\* call that returns has released it), and under fair scheduling every
\* get_temp call that was started returns.
C17_HeldForOneTransaction ==
    /\ [](read_mutex.owner = {c \in Callers : pc[c] \in HoldingPcs})
    /\ \A c \in Callers : (pc[c] # "idle") ~> (pc[c] = "done")

\* C17 witness: one call has returned with the mutex free again while
\* another call, which was waiting, is about to take it.
C17_Witness ==
    \E c, d \in Callers :
        /\ pc[c] = "done" /\ ret[c] = 0 /\ Len(trace[c]) = 9
        /\ pc[d] = "lock"
        /\ read_mutex.owner = {}

====
